---- MODULE Spec2Model ----
(***************************************************************************)
(* Model of the GreatFET host library's SPI bus peripheral                 *)
(* (host/greatfet/peripherals/spi_bus.py) and of the onboard-flash         *)
(* utility (host/greatfet/commands/greatfet_firmware.py).                  *)
(*                                                                         *)
(* Spec     : one SPIBus object driven by attach_device / transmit calls.  *)
(* SpecMain : one run of greatfet_firmware.main().                         *)
(***************************************************************************)
EXTENDS Integers, Sequences, FiniteSets

\* ---------------------------------------------------------------- bounds
MaxLen == 2
MaxRecv == 3
MaxBufferSize == 2
MaxDevices == 2

\* ------------------------------------------------------ program constants
MAX_FLASH_LENGTH == 1048576

\* transmit never inspects a byte: a zero (what padding adds) and a non-zero
\* value stand for all of 0..255
Bytes == {0, 255}
SeqsUpTo(S, n) == UNION {[1..k -> S] : k \in 0..n}
DataLists == SeqsUpTo(Bytes, MaxLen)
\* receive_length values a caller may pass explicitly
ReceiveLengths == (0 - 1)..MaxRecv
\* what the board would clock back: long enough for any request
Streams == {[i \in 1..MaxRecv |-> IF (i + k) % 2 = 0 THEN 0 ELSE 255] : k \in {0, 1}}
Handles == {"dev_a", "dev_b"}
\* exceptions the vendor-request transport can raise
TransportErrors == {"USBTimeout", "USBPipe"}
TransportOutcomes == {"none"} \cup TransportErrors

VARIABLES
    buffer_size,     \* SPIBus.buffer_size
    devices,         \* SPIBus.devices
    op,              \* the SPIBus operation that ran last
    arg_device,      \* attach_device: the handle passed in
    arg_data,        \* transmit: the caller's list as it was passed in
    arg_given,       \* transmit: receive_length was passed (not None)
    arg_rl,          \* transmit: the receive_length passed
    data,            \* transmit: the caller's list object after the call
    receive_length,  \* transmit: the local receive_length after line 69
    calls,           \* vendor requests issued by the last operation, in order
    result,          \* transmit: the returned value
    raised,          \* exception leaving the last operation ("none" if none)
    pc,              \* main: position in the script
    args,            \* main: parsed command line
    flash_calls,     \* main: operations invoked on the device, in order
    exit_status      \* main: how the run ended

busvars == <<buffer_size, devices, op, arg_device, arg_data, arg_given, arg_rl,
             data, receive_length, calls, result, raised>>
mainvars == <<pc, args, flash_calls, exit_status>>
vars == <<buffer_size, devices, op, arg_device, arg_data, arg_given, arg_rl,
          data, receive_length, calls, result, raised,
          pc, args, flash_calls, exit_status>>

\* ------------------------------------------------------------- transport
VendorRequestOut(req, payload, err) ==
    [req |-> req, data |-> payload, length |-> 0, error |-> err]

VendorRequestIn(req, length, err) ==
    [req |-> req, data |-> <<>>, length |-> length, error |-> err]

\* the bytes a successful vendor_request_in of `length` bytes hands back
Response(stream, length) == SubSeq(stream, 1, length)

\* ------------------------------------------------------- SPIBus.transmit
Zeros(n) == [i \in 1..n |-> 0]

DefaultLength(d, given, r) == IF given THEN r ELSE Len(d)

Extend_short(d, rl) ==
    IF rl > Len(d) THEN d \o Zeros(rl - Len(d) - 1) ELSE d

Extend(d, rl) ==
    IF rl > Len(d) THEN d \o Zeros(rl - Len(d)) ELSE d

ExceedsBuffer_offbyone(d, bs) == Len(d) > bs + 1

ExceedsBuffer(d, bs) == Len(d) > bs

CoreTransfer_readfirst(d, rl, werr, rerr, stream) ==
    LET w == VendorRequestOut("SPI_WRITE", d, werr)
        r == VendorRequestIn("SPI_READ", rl, rerr)
    IN  IF rl > 0
        THEN IF rerr # "none"
             THEN [calls |-> <<r>>, result |-> <<>>, raised |-> rerr]
             ELSE IF werr # "none"
                  THEN [calls |-> <<r, w>>, result |-> <<>>, raised |-> werr]
                  ELSE [calls |-> <<r, w>>, result |-> Response(stream, rl),
                        raised |-> "none"]
        ELSE IF werr # "none"
             THEN [calls |-> <<w>>, result |-> <<>>, raised |-> werr]
             ELSE [calls |-> <<w>>, result |-> <<>>, raised |-> "none"]

CoreTransfer_readlen(d, rl, werr, rerr, stream) ==
    LET w == VendorRequestOut("SPI_WRITE", d, werr)
        r == VendorRequestIn("SPI_READ", Len(d), rerr)
    IN  IF werr # "none"
        THEN [calls |-> <<w>>, result |-> <<>>, raised |-> werr]
        ELSE IF rl > 0
             THEN IF rerr # "none"
                  THEN [calls |-> <<w, r>>, result |-> <<>>, raised |-> rerr]
                  ELSE [calls |-> <<w, r>>,
                        result |-> Response(stream, Len(d)), raised |-> "none"]
             ELSE [calls |-> <<w>>, result |-> <<>>, raised |-> "none"]

CoreTransfer_retry(d, rl, werr, rerr, stream) ==
    LET w == VendorRequestOut("SPI_WRITE", d, werr)
        w2 == VendorRequestOut("SPI_WRITE", d, "none")
        r == VendorRequestIn("SPI_READ", rl, rerr)
        first == IF werr # "none" THEN <<w, w2>> ELSE <<w>>
    IN  IF rl > 0
        THEN IF rerr # "none"
             THEN [calls |-> first \o <<r>>, result |-> <<>>, raised |-> rerr]
             ELSE [calls |-> first \o <<r>>, result |-> Response(stream, rl),
                   raised |-> "none"]
        ELSE [calls |-> first, result |-> <<>>, raised |-> "none"]

CoreTransfer(d, rl, werr, rerr, stream) ==
    LET w == VendorRequestOut("SPI_WRITE", d, werr)
        r == VendorRequestIn("SPI_READ", rl, rerr)
    IN  IF werr # "none"
        THEN [calls |-> <<w>>, result |-> <<>>, raised |-> werr]
        ELSE IF rl > 0
             THEN IF rerr # "none"
                  THEN [calls |-> <<w, r>>, result |-> <<>>, raised |-> rerr]
                  ELSE [calls |-> <<w, r>>, result |-> Response(stream, rl),
                        raised |-> "none"]
             ELSE [calls |-> <<w>>, result |-> <<>>, raised |-> "none"]

TransmitRun_rejectuntouched(d, given, r, bs, werr, rerr, stream) ==
    LET rl == DefaultLength(d, given, r)
        extended == Extend(d, rl)
    IN  IF ExceedsBuffer(extended, bs)
        THEN [data |-> d, receive_length |-> rl, calls |-> <<>>,
              result |-> <<>>, raised |-> "ValueError"]
        ELSE LET t == CoreTransfer(extended, rl, werr, rerr, stream)
             IN  [data |-> extended, receive_length |-> rl, calls |-> t.calls,
                  result |-> t.result, raised |-> t.raised]

TransmitRun_checkunpadded(d, given, r, bs, werr, rerr, stream) ==
    LET rl == DefaultLength(d, given, r)
        extended == Extend(d, rl)
    IN  IF ExceedsBuffer(d, bs)
        THEN [data |-> extended, receive_length |-> rl, calls |-> <<>>,
              result |-> <<>>, raised |-> "ValueError"]
        ELSE LET t == CoreTransfer(extended, rl, werr, rerr, stream)
             IN  [data |-> extended, receive_length |-> rl, calls |-> t.calls,
                  result |-> t.result, raised |-> t.raised]

TransmitRun(d, given, r, bs, werr, rerr, stream) ==
    LET rl == DefaultLength(d, given, r)
        extended == Extend(d, rl)
    IN  IF ExceedsBuffer(extended, bs)
        THEN [data |-> extended, receive_length |-> rl, calls |-> <<>>,
              result |-> <<>>, raised |-> "ValueError"]
        ELSE LET t == CoreTransfer(extended, rl, werr, rerr, stream)
             IN  [data |-> extended, receive_length |-> rl, calls |-> t.calls,
                  result |-> t.result, raised |-> t.raised]

\* -------------------------------------------------- SPIBus.attach_device
AttachResult_dedupe(devs, device) ==
    IF \E i \in 1..Len(devs) : devs[i] = device THEN devs
    ELSE Append(devs, device)

AttachResult(devs, device) == Append(devs, device)

\* ------------------------------------------------------------ bus actions
InitBus ==
    /\ buffer_size \in 1..MaxBufferSize
    /\ devices = <<>>
    /\ op = "init"
    /\ arg_device = "none"
    /\ arg_data = <<>>
    /\ arg_given = FALSE
    /\ arg_rl = 0
    /\ data = <<>>
    /\ receive_length = 0
    /\ calls = <<VendorRequestOut("SPI_INIT", <<>>, "none")>>
    /\ result = <<>>
    /\ raised = "none"

InitMain ==
    /\ pc = "parse"
    /\ args = [write |-> FALSE, read |-> FALSE, reset |-> FALSE,
               address |-> 0, length |-> MAX_FLASH_LENGTH]
    /\ flash_calls = <<>>
    /\ exit_status = "running"

Init == InitBus /\ InitMain

attach_device(device) ==
    /\ Len(devices) < MaxDevices
    /\ devices' = AttachResult(devices, device)
    /\ op' = "attach"
    /\ arg_device' = device
    /\ calls' = <<>>
    /\ result' = <<>>
    /\ raised' = "none"
    /\ UNCHANGED <<buffer_size, arg_data, arg_given, arg_rl, data,
                   receive_length>>
    /\ UNCHANGED mainvars

DoTransmit(d, given, r, werr, rerr, stream) ==
    LET t == TransmitRun(d, given, r, buffer_size, werr, rerr, stream)
    IN  /\ op' = "transmit"
        /\ arg_data' = d
        /\ arg_given' = given
        /\ arg_rl' = r
        /\ data' = t.data
        /\ receive_length' = t.receive_length
        /\ calls' = t.calls
        /\ result' = t.result
        /\ raised' = t.raised
        /\ UNCHANGED <<buffer_size, devices, arg_device>>
        /\ UNCHANGED mainvars

\* transmit called with a list the caller has just built
transmit ==
    \E d \in DataLists, given \in BOOLEAN, r \in ReceiveLengths,
       werr \in TransportOutcomes, rerr \in TransportOutcomes,
       stream \in Streams :
        /\ given \/ r = 0
        /\ werr = "none" \/ rerr = "none"
        /\ DoTransmit(d, given, r, werr, rerr, stream)

\* transmit called again with the list object of the previous call
transmit_again ==
    \E given \in BOOLEAN, r \in ReceiveLengths,
       werr \in TransportOutcomes, rerr \in TransportOutcomes,
       stream \in Streams :
        /\ op = "transmit"
        /\ given \/ r = 0
        /\ werr = "none" \/ rerr = "none"
        /\ DoTransmit(data, given, r, werr, rerr, stream)

attach == \E device \in Handles : attach_device(device)

Next == attach \/ transmit \/ transmit_again

Spec == Init /\ [][Next]_vars

\* ------------------------------------------------- greatfet_firmware.py
Addresses == {0, 1, MAX_FLASH_LENGTH}
Lengths == {1, 256, MAX_FLASH_LENGTH}
FileLengths == {0, 256, MAX_FLASH_LENGTH + 1}

FlashCall(name, address, length, err) ==
    [op |-> name, address |-> address, length |-> length, error |-> err]

\* device.onboard_flash.read(address, length, ...) inside spi_flash_read
spi_flash_read(address, length, err) ==
    [calls |-> <<FlashCall("read", address, length, err)>>, raised |-> err]

\* device.onboard_flash.write(flash_data, address, erase_first=True, ...)
\* inside spi_flash_write; file_len is the size of the file read
spi_flash_write(file_len, address, err) ==
    [calls |-> <<FlashCall("write", address, file_len, err)>>, raised |-> err]

device_reset(err) ==
    [calls |-> <<FlashCall("reset", 0, 0, err)>>, raised |-> err]

\* an exception leaves main; otherwise the script goes on to its next block
AfterCall_swallow(err, next_pc) == next_pc

AfterCall(err, next_pc) == IF err # "none" THEN "raised" ELSE next_pc

StatusAfter(err, status) == IF err # "none" THEN err ELSE status

ParseArgs ==
    /\ pc = "parse"
    /\ \E w \in BOOLEAN, r \in BOOLEAN, rst \in BOOLEAN,
          address \in Addresses, length \in Lengths :
        /\ args' = [write |-> w, read |-> r, reset |-> rst,
                    address |-> address, length |-> length]
        /\ IF ~(r \/ w \/ rst)
           THEN pc' = "exited" /\ exit_status' = "exit_0"
           ELSE pc' = "connect" /\ exit_status' = exit_status
    /\ UNCHANGED flash_calls
    /\ UNCHANGED busvars

Connect ==
    /\ pc = "connect"
    /\ \E found \in BOOLEAN, has_flash \in BOOLEAN :
        IF ~found
        THEN pc' = "exited" /\ exit_status' = "ENODEV"
        ELSE IF ~has_flash
             THEN pc' = "exited" /\ exit_status' = "ENOSYS"
             ELSE pc' = "write" /\ exit_status' = exit_status
    /\ UNCHANGED <<args, flash_calls>>
    /\ UNCHANGED busvars

WriteStep ==
    /\ pc = "write"
    /\ IF args.write
       THEN \E file_len \in FileLengths, err \in TransportOutcomes :
              LET w == spi_flash_write(file_len, args.address, err)
              IN  /\ flash_calls' = flash_calls \o w.calls
                  /\ pc' = AfterCall(w.raised, "read")
                  /\ exit_status' = StatusAfter(w.raised, exit_status)
       ELSE /\ pc' = "read"
            /\ UNCHANGED <<flash_calls, exit_status>>
    /\ UNCHANGED args
    /\ UNCHANGED busvars

ReadStep ==
    /\ pc = "read"
    /\ IF args.read
       THEN \E err \in TransportOutcomes :
              LET r == spi_flash_read(args.address, args.length, err)
              IN  /\ flash_calls' = flash_calls \o r.calls
                  /\ pc' = AfterCall(r.raised, "reset")
                  /\ exit_status' = StatusAfter(r.raised, exit_status)
       ELSE /\ pc' = "reset"
            /\ UNCHANGED <<flash_calls, exit_status>>
    /\ UNCHANGED args
    /\ UNCHANGED busvars

ResetStep ==
    /\ pc = "reset"
    /\ IF args.reset
       THEN \E err \in TransportOutcomes :
              LET r == device_reset(err)
              IN  /\ flash_calls' = flash_calls \o r.calls
                  /\ pc' = AfterCall(r.raised, "done")
                  /\ exit_status' = StatusAfter(r.raised, "returned")
       ELSE /\ pc' = "done"
            /\ exit_status' = "returned"
            /\ UNCHANGED flash_calls
    /\ UNCHANGED args
    /\ UNCHANGED busvars

NextMain == ParseArgs \/ Connect \/ WriteStep \/ ReadStep \/ ResetStep

SpecMain == Init /\ [][NextMain]_vars

\* ------------------------------------------------------------ properties
\* The quantities below are computed from the arguments of the call alone.
ReqLen == IF arg_given THEN arg_rl ELSE Len(arg_data)

Reconciled == IF Len(arg_data) > ReqLen THEN Len(arg_data) ELSE ReqLen

PaddedArg ==
    IF ReqLen > Len(arg_data)
    THEN arg_data \o [i \in 1..(ReqLen - Len(arg_data)) |-> 0]
    ELSE arg_data

Accepted == op = "transmit" /\ raised # "ValueError"

NoTransportFailure == \A i \in 1..Len(calls) : calls[i].error = "none"

\* C1: a transmit whose reconciled length max(len(data), receive_length)
\* exceeds buffer_size raises the capacity error (ValueError) and has issued
\* no vendor request at all.
C1_CapacityRejectedBeforeIO ==
    (op = "transmit" /\ Reconciled > buffer_size)
        => (raised = "ValueError" /\ calls = <<>>)

C1_Witness ==
    /\ op = "transmit"
    /\ Len(arg_data) <= buffer_size
    /\ ReqLen > buffer_size
    /\ raised = "ValueError"

\* C2 (as stated): for any send_bytes and any receive_length <= buffer_size,
\* with a transport that does not fail, transmit returns exactly
\* receive_length bytes (none when receive_length is 0).
C2_Original ==
    (op = "transmit" /\ ReqLen <= buffer_size /\ NoTransportFailure)
        => (/\ raised = "none"
            /\ Len(result) = (IF ReqLen > 0 THEN ReqLen ELSE 0))

\* C2 (amended): the same, for send_bytes no longer than buffer_size.
C2_ReturnsReceiveLength ==
    (/\ op = "transmit"
     /\ ReqLen <= buffer_size
     /\ Len(arg_data) <= buffer_size
     /\ NoTransportFailure)
        => (/\ raised = "none"
            /\ Len(result) = (IF ReqLen > 0 THEN ReqLen ELSE 0))

C2_Witness ==
    /\ op = "transmit"
    /\ raised = "none"
    /\ ReqLen > 0
    /\ ReqLen < Len(arg_data)
    /\ Len(result) = ReqLen

\* C3: an accepted transmit issues SPI_WRITE with the full reconciled
\* payload as its first and only write; when receive_length > 0 and the
\* write came back, exactly one SPI_READ of receive_length bytes follows it;
\* when receive_length is 0 no SPI_READ is issued; nothing precedes the write.
C3_OneWriteThenOneRead ==
    Accepted =>
        /\ Len(calls) >= 1
        /\ calls[1].req = "SPI_WRITE"
        /\ calls[1].data = PaddedArg
        /\ (calls[1].error = "none" /\ ReqLen > 0)
               => (/\ Len(calls) = 2
                   /\ calls[2].req = "SPI_READ"
                   /\ calls[2].length = ReqLen)
        /\ (calls[1].error # "none" \/ ReqLen <= 0) => Len(calls) = 1

C3_Witness ==
    /\ Accepted
    /\ raised = "none"
    /\ Len(calls) = 2
    /\ ReqLen < Len(arg_data)

\* C4: in an accepted transmit the payload of every SPI_WRITE is the
\* caller's bytes followed by receive_length - len(send_bytes) zero bytes
\* when receive_length > len(send_bytes), and the caller's bytes unchanged
\* otherwise.
C4_PayloadZeroPadded ==
    op = "transmit" =>
        \A i \in 1..Len(calls) :
            calls[i].req = "SPI_WRITE" =>
                /\ SubSeq(calls[i].data, 1, Len(arg_data)) = arg_data
                /\ Len(calls[i].data) = Reconciled
                /\ \A k \in (Len(arg_data) + 1)..Len(calls[i].data) :
                       calls[i].data[k] = 0

C4_Witness ==
    /\ Accepted
    /\ Len(arg_data) >= 1
    /\ arg_data[1] # 0
    /\ ReqLen > Len(arg_data)
    /\ Len(calls[1].data) = ReqLen

\* C5: every payload handed to SPI_WRITE and every length requested from
\* SPI_READ is at most buffer_size, and buffer_size never changes.
C5_WithinBuffer ==
    \A i \in 1..Len(calls) :
        /\ calls[i].req = "SPI_WRITE" => Len(calls[i].data) <= buffer_size
        /\ calls[i].req = "SPI_READ" => calls[i].length <= buffer_size

C5_BufferBounded ==
    /\ []C5_WithinBuffer
    /\ [][buffer_size' = buffer_size]_vars

C5_Witness ==
    /\ Accepted
    /\ devices # <<>>
    /\ Len(arg_data) < buffer_size
    /\ Len(calls) = 2
    /\ Len(calls[1].data) = buffer_size
    /\ calls[2].length = buffer_size

\* C6: every read or write invoked on the onboard flash lies within the
\* configured maximum: address + length <= MAX_FLASH_LENGTH.
C6_FlashRangeChecked ==
    \A i \in 1..Len(flash_calls) :
        flash_calls[i].op \in {"read", "write"}
            => flash_calls[i].address + flash_calls[i].length
                   <= MAX_FLASH_LENGTH

\* C7: transmit issues SPI_WRITE at most once and SPI_READ at most once; a
\* failing vendor request is the last one issued and its error is the error
\* that leaves transmit; after a failing write no read is issued.
C7_NoRetryNoSwallow ==
    op = "transmit" =>
        /\ Cardinality({i \in 1..Len(calls) : calls[i].req = "SPI_WRITE"}) <= 1
        /\ Cardinality({i \in 1..Len(calls) : calls[i].req = "SPI_READ"}) <= 1
        /\ \A i \in 1..Len(calls) :
               calls[i].error # "none"
                   => (i = Len(calls) /\ raised = calls[i].error)

C7_Witness ==
    /\ op = "transmit"
    /\ Len(calls) = 2
    /\ calls[1].error = "none"
    /\ calls[2].error = "USBPipe"
    /\ raised = "USBPipe"

\* C8: attach_device raises nothing and appends its handle at the end of the
\* registry, whatever the registry holds; transmit leaves the registry as it
\* was, whether it returns or raises.
C8_RegistryAppendOnly ==
    [][/\ op' = "attach" => (/\ devices' = devices \o <<arg_device'>>
                             /\ raised' = "none")
       /\ op' = "transmit" => devices' = devices]_vars

C8_Witness ==
    /\ op = "transmit"
    /\ raised # "none"
    /\ Len(devices) = 2
    /\ devices[1] = devices[2]

\* C9: main invokes the requested device operations in the order write,
\* read, reset; an operation is invoked only after every earlier one came
\* back without error; an error of any of them leaves main, and a run that
\* reaches the end has invoked every requested operation.
Requested ==
    (IF args.write THEN <<"write">> ELSE <<>>)
        \o (IF args.read THEN <<"read">> ELSE <<>>)
        \o (IF args.reset THEN <<"reset">> ELSE <<>>)

C9_WriteReadResetInOrder ==
    /\ Len(flash_calls) <= Len(Requested)
    /\ \A i \in 1..Len(flash_calls) : flash_calls[i].op = Requested[i]
    /\ \A i \in 1..Len(flash_calls) :
           flash_calls[i].error # "none"
               => (/\ i = Len(flash_calls)
                   /\ pc = "raised"
                   /\ exit_status = flash_calls[i].error)
    /\ pc = "done" => Len(flash_calls) = Len(Requested)

C9_Witness ==
    /\ pc = "raised"
    /\ args.write /\ args.read /\ args.reset
    /\ Len(flash_calls) = 2
    /\ flash_calls[2].op = "read"
    /\ flash_calls[2].error # "none"

\* C10: after a transmit with receive_length > len(data) the caller's list
\* is the bytes passed in followed by zeros up to receive_length, also when
\* the call was rejected with the capacity error.
C10_CallerListPadded ==
    (op = "transmit" /\ ReqLen > Len(arg_data))
        => (/\ Len(data) = ReqLen
            /\ SubSeq(data, 1, Len(arg_data)) = arg_data
            /\ \A k \in (Len(arg_data) + 1)..ReqLen : data[k] = 0)

C10_Witness ==
    /\ op = "transmit"
    /\ raised = "ValueError"
    /\ calls = <<>>
    /\ Len(arg_data) >= 1
    /\ Len(data) > Len(arg_data)

====
